---- MODULE Spec2Model ----
(***************************************************************************)
(* Trip cart store of northeast-wind (src/stores/trip-cart): three atoms   *)
(* ($cartItems, $selectedHub, $sidebarOpen), the computed views derived    *)
(* from them, the action functions, and the two localStorage keys the      *)
(* store persists to.                                                      *)
(***************************************************************************)
EXTENDS Integers, Sequences, FiniteSets, TLC

(***************************************************************************)
(* Bounds                                                                  *)
(***************************************************************************)
\* number of genuinely new entries appended over a whole behaviour
MaxAdds == 3

(***************************************************************************)
(* Values                                                                  *)
(***************************************************************************)
\* localStorage.getItem of a key that was never set
NULL == "<null>"

\* the hub names of the catalog
Guwahati == "Guwahati Airport"
Dibrugarh == "Dibrugarh Airport"
Shillong == "Shillong Airport"

HubNames == {Guwahati, Dibrugarh, Shillong}

LogisticsEntry(hub, mins) == [hub_name |-> hub, drive_time_mins |-> mins]

\* number | null: null is the empty sequence, a number n is <<n>>
null == <<>>
Num(n) == <<n>>

CartPlace(id, name, category, state, rating, logistics) ==
    [id |-> id, name |-> name, category |-> category, state |-> state,
     googleRating |-> rating, logistics |-> logistics]

P1 == CartPlace("p1", "Kamakhya Temple", "Spiritual", "Assam", Num(4),
        <<LogisticsEntry(Guwahati, 30)>>)
P2 == CartPlace("p2", "Nohkalikai Falls", "Waterfall", "Meghalaya", null, <<>>)
\* a place whose logistics name one hub in several rows
P3 == CartPlace("p3", "Kaziranga", "Wildlife & Nature", "Assam", Num(5),
        <<LogisticsEntry(Dibrugarh, 15), LogisticsEntry(Shillong, 22),
          LogisticsEntry(Dibrugarh, 20), LogisticsEntry(Guwahati, 40),
          LogisticsEntry(Dibrugarh, 25)>>)

Places == {P1, P2, P3}
PlaceIds == {p.id : p \in Places}

\* A cart entry is the place handed to addToCart; `at` records which call of
\* addToCart appended it (history only, the code never reads it).
Entry(place, t) ==
    [id |-> place.id, name |-> place.name, category |-> place.category,
     state |-> place.state, googleRating |-> place.googleRating,
     logistics |-> place.logistics, at |-> t]

\* JavaScript values $cartItems can hold: an array of entries, or (after a
\* JSON.parse of foreign data) a value that is not an array.
Arr(items) == [kind |-> "array", items |-> items]
NotArr == [kind |-> "object", items |-> <<>>]
IsArray(v) == v.kind = "array"

\* Values of the ne-trip-cart key: no key, or a text.
Absent == [kind |-> "absent", items |-> <<>>]
EmptyText == [kind |-> "empty", items |-> <<>>]
GarbageText == [kind |-> "garbage", items |-> <<>>]
ObjectText == [kind |-> "json-object", items |-> <<>>]

VARIABLES
    cartItems,      \* $cartItems
    selectedHub,    \* $selectedHub
    sidebarOpen,    \* $sidebarOpen
    storedCart,     \* localStorage["ne-trip-cart"]
    storedHub,      \* localStorage["ne-trip-hub"]
    err,            \* the last handler let an exception escape
    clock,          \* number of entries appended so far (history)
    last,           \* the step that led here (history)
    session,        \* how the page's session stands to localStorage (history)
    mapSelectedHub, \* TripPlannerMap: useState selectedHub
    userCoords,     \* TripPlannerMap: useState userCoords
    geoStatus,      \* TripPlannerMap: useState geoStatus
    placesInRadius, \* TripPlannerMap: useState placesInRadius
    popups,         \* TripPlannerMap: what the markers of markersLayer show
    pending,        \* getCurrentPosition requests that have not called back
    layers,         \* TripPlannerMap: the circles and origin markers on the Leaflet map
    radiusCircle,   \* TripPlannerMap: useRef radiusCircle
    hubMarker,      \* TripPlannerMap: useRef hubMarker
    geolocation,    \* navigator.geolocation exists
    probe           \* a call of one of the pure functions and what it returned

storeVars == <<cartItems, selectedHub, sidebarOpen, storedCart, storedHub, err, clock,
               last, session>>
mapVars == <<mapSelectedHub, userCoords, geoStatus, placesInRadius, popups, pending,
             layers, radiusCircle, hubMarker,
             geolocation>>
vars == <<storeVars, mapVars, probe>>

(***************************************************************************)
(* Computed views                                                          *)
(***************************************************************************)
\* items.length, for (const item of items): the views are computed only of a list
ViewsComputable(v) == IsArray(v)

\* $cartCount
cartCount(items) == Len(items)

GroupPush_NewGroupFirst(groups, item) ==
    IF \E i \in 1..Len(groups) : groups[i].state = item.state
    THEN [i \in 1..Len(groups) |->
            IF groups[i].state = item.state
            THEN [groups[i] EXCEPT !.places = Append(@, item)]
            ELSE groups[i]]
    ELSE <<[state |-> item.state, places |-> <<item>>]>> \o groups

\* (groups[item.state] ??= []).push(item): the object's keys in insertion
\* order, as a sequence of [state, places]
GroupPush(groups, item) ==
    IF \E i \in 1..Len(groups) : groups[i].state = item.state
    THEN [i \in 1..Len(groups) |->
            IF groups[i].state = item.state
            THEN [groups[i] EXCEPT !.places = Append(@, item)]
            ELSE groups[i]]
    ELSE Append(groups, [state |-> item.state, places |-> <<item>>])

RECURSIVE GroupFrom(_, _)
GroupFrom(items, groups) ==
    IF items = <<>> THEN groups
    ELSE GroupFrom(Tail(items), GroupPush(groups, Head(items)))

\* $groupedByState
groupedByState(items) == GroupFrom(items, <<>>)

\* hubCount.set(name, (hubCount.get(name) ?? 0) + 1): a Map keeps the
\* position of a key it already holds and appends a new key
HubCountSet(m, name) ==
    IF \E i \in 1..Len(m) : m[i].name = name
    THEN [i \in 1..Len(m) |->
            IF m[i].name = name THEN [m[i] EXCEPT !.count = @ + 1] ELSE m[i]]
    ELSE Append(m, [name |-> name, count |-> 1])

\* the inner loop: for (const l of item.logistics)
RECURSIVE CountLogistics(_, _)
CountLogistics(rows, m) ==
    IF rows = <<>> THEN m
    ELSE CountLogistics(Tail(rows), HubCountSet(m, Head(rows).hub_name))

\* the outer loop: for (const item of items)
RECURSIVE CountItems(_, _)
CountItems(items, m) ==
    IF items = <<>> THEN m
    ELSE CountItems(Tail(items), CountLogistics(Head(items).logistics, m))

hubCount(items) == CountItems(items, <<>>)

SortInsert_Unstable(sorted, e) ==
    LET before == {i \in 1..Len(sorted) : sorted[i].count > e.count}
        k == IF before = {} THEN 0
             ELSE CHOOSE i \in before : \A j \in before : j <= i
    IN  SubSeq(sorted, 1, k) \o <<e>> \o SubSeq(sorted, k + 1, Len(sorted))

\* one step of a stable sort by (a, b) => b[1] - a[1]: e goes after every
\* element whose count is not smaller
SortInsert(sorted, e) ==
    LET before == {i \in 1..Len(sorted) : sorted[i].count >= e.count}
        k == IF before = {} THEN 0
             ELSE CHOOSE i \in before : \A j \in before : j <= i
    IN  SubSeq(sorted, 1, k) \o <<e>> \o SubSeq(sorted, k + 1, Len(sorted))

RECURSIVE SortDesc(_, _)
SortDesc(rest, sorted) ==
    IF rest = <<>> THEN sorted
    ELSE SortDesc(Tail(rest), SortInsert(sorted, Head(rest)))

\* $availableHubs
availableHubs(items) ==
    LET ranked == SortDesc(hubCount(items), <<>>)
    IN  [i \in 1..Len(ranked) |-> ranked[i].name]

FindHub_Last(rows, hub) ==
    LET hits == {i \in 1..Len(rows) : rows[i].hub_name = hub}
    IN  IF hits = {} THEN 0 ELSE CHOOSE i \in hits : \A j \in hits : j <= i

\* item.logistics.find((x) => x.hub_name === hub): index of the first match, 0 for undefined
FindHub(rows, hub) ==
    LET hits == {i \in 1..Len(rows) : rows[i].hub_name = hub}
    IN  IF hits = {} THEN 0 ELSE CHOOSE i \in hits : \A j \in hits : i <= j

RECURSIVE SumDrive(_, _, _)
SumDrive(items, hub, total) ==
    IF items = <<>> THEN total
    ELSE LET rows == Head(items).logistics
             l == FindHub(rows, hub)
         IN  SumDrive(Tail(items), hub,
                      IF l # 0 THEN total + rows[l].drive_time_mins ELSE total)

\* $totalDriveMins
totalDriveMins(items, hub) ==
    IF hub = "" THEN 0 ELSE SumDrive(items, hub, 0)

(***************************************************************************)
(* Persistence                                                             *)
(***************************************************************************)
\* JSON.stringify of the value of $cartItems
JSONStringify(v) ==
    IF IsArray(v) THEN [kind |-> "json-array", items |-> v.items] ELSE ObjectText

\* JSON.parse: the value, or a SyntaxError
JSONParse(raw) ==
    CASE raw.kind = "json-array" -> [threw |-> FALSE, value |-> Arr(raw.items)]
      [] raw.kind = "json-object" -> [threw |-> FALSE, value |-> NotArr]
      [] OTHER -> [threw |-> TRUE, value |-> NotArr]

\* a string is truthy unless it is null or ""
Truthy(raw) == raw.kind \notin {"absent", "empty"}

\* localStorage.setItem(key, value): stores the value, or throws (quota
\* exceeded) and leaves the key as it was
setItem(old, value, ok) ==
    [stored |-> IF ok THEN value ELSE old, threw |-> ~ok]

\* the store and its two storage keys as a handler finds them; `failed` notes
\* that a write of the handler was refused (history only)
Store ==
    [cartItems |-> cartItems, selectedHub |-> selectedHub, sidebarOpen |-> sidebarOpen,
     storedCart |-> storedCart, storedHub |-> storedHub, err |-> err, clock |-> clock,
     failed |-> FALSE]

saveToStorage_NoCatch(s, items, ok) ==
    LET r == setItem(s.storedCart, JSONStringify(items), ok)
    IN  [s EXCEPT !.storedCart = r.stored, !.failed = @ \/ r.threw, !.err = r.threw]

\* saveToStorage(items): try { setItem } catch {}
saveToStorage(s, items, ok) ==
    LET r == setItem(s.storedCart, JSONStringify(items), ok)
    IN  [s EXCEPT !.storedCart = r.stored, !.failed = @ \/ r.threw]

\* saveHubToStorage(hub): try { setItem } catch {}
saveHubToStorage(s, hub, ok) ==
    LET r == setItem(s.storedHub, hub, ok)
    IN  [s EXCEPT !.storedHub = r.stored, !.failed = @ \/ r.threw]

\* loadFromStorage(): everything inside one try; a SyntaxError of JSON.parse
\* skips the rest, the hub included
loadFromStorage(s) ==
    LET s0 == [s EXCEPT !.err = FALSE]
        raw == s0.storedCart
        parsed == JSONParse(raw)
        s1 == IF Truthy(raw) THEN [s0 EXCEPT !.cartItems = parsed.value] ELSE s0
        hub == s1.storedHub
    IN  IF Truthy(raw) /\ parsed.threw THEN s0
        ELSE IF hub # NULL /\ hub # "" THEN [s1 EXCEPT !.selectedHub = hub]
        ELSE s1

(***************************************************************************)
(* Actions of the store                                                    *)
(***************************************************************************)
\* current.some((p) => p.id === place.id)
InCart(items, id) == \E i \in 1..Len(items) : items[i].id = id

appendToCart_Reselects(s0, place, okCart, okHub) ==
    LET next == Append(s0.cartItems.items, Entry(place, s0.clock + 1))
        s1 == [s0 EXCEPT !.cartItems = Arr(next), !.clock = @ + 1]
        s2 == saveToStorage(s1, Arr(next), okCart)
        hubs == availableHubs(s2.cartItems.items)
        s3 == IF Len(hubs) > 0
              THEN saveHubToStorage([s2 EXCEPT !.selectedHub = hubs[1]], hubs[1], okHub)
              ELSE s2
    IN  [s3 EXCEPT !.sidebarOpen = TRUE]

\* addToCart past its early return: append, persist, auto-select a hub if
\* none is selected, open the sidebar; a statement that throws ends the handler
appendToCart(s0, place, okCart, okHub) ==
    LET next == Append(s0.cartItems.items, Entry(place, s0.clock + 1))
        s1 == [s0 EXCEPT !.cartItems = Arr(next), !.clock = @ + 1]
        s2 == saveToStorage(s1, Arr(next), okCart)
        hubs == availableHubs(s2.cartItems.items)
        s3 == IF s2.selectedHub = "" /\ Len(hubs) > 0
              THEN saveHubToStorage([s2 EXCEPT !.selectedHub = hubs[1]], hubs[1], okHub)
              ELSE s2
    IN  IF s2.err THEN s2
        ELSE IF s3.err THEN s3
        ELSE [s3 EXCEPT !.sidebarOpen = TRUE]

addToCart_NoIdCheck(s, place, okCart, okHub) ==
    appendToCart([s EXCEPT !.err = FALSE], place, okCart, okHub)

addToCart_OpensOnDuplicate(s, place, okCart, okHub) ==
    LET s0 == [s EXCEPT !.err = FALSE]
    IN  IF InCart(s0.cartItems.items, place.id) THEN [s0 EXCEPT !.sidebarOpen = TRUE]
        ELSE appendToCart(s0, place, okCart, okHub)

\* addToCart(place)
addToCart(s, place, okCart, okHub) ==
    LET s0 == [s EXCEPT !.err = FALSE]
    IN  IF ~IsArray(s0.cartItems) THEN [s0 EXCEPT !.err = TRUE]
        ELSE IF InCart(s0.cartItems.items, place.id) THEN s0
        ELSE appendToCart(s0, place, okCart, okHub)

\* .filter((p) => p.id !== id)
RECURSIVE FilterOut(_, _)
FilterOut(items, id) ==
    IF items = <<>> THEN <<>>
    ELSE IF Head(items).id # id THEN <<Head(items)>> \o FilterOut(Tail(items), id)
    ELSE FilterOut(Tail(items), id)

removeFromCart_DropsHubWhenEmpty(s, id, okCart) ==
    LET next == FilterOut(s.cartItems.items, id)
        s1 == [s EXCEPT !.err = FALSE, !.cartItems = Arr(next),
                        !.selectedHub = IF next = <<>> THEN "" ELSE @]
    IN  saveToStorage(s1, Arr(next), okCart)

\* removeFromCart(id)
removeFromCart(s, id, okCart) ==
    LET s0 == [s EXCEPT !.err = FALSE]
    IN  IF ~IsArray(s0.cartItems) THEN [s0 EXCEPT !.err = TRUE]
        ELSE
          LET next == FilterOut(s0.cartItems.items, id)
              s1 == [s0 EXCEPT !.cartItems = Arr(next)]
          IN  saveToStorage(s1, Arr(next), okCart)

clearCart_KeepsStoredHub(s, okCart, okHub) ==
    LET s1 == [s EXCEPT !.err = FALSE, !.cartItems = Arr(<<>>), !.selectedHub = ""]
    IN  saveToStorage(s1, Arr(<<>>), okCart)

\* clearCart()
clearCart(s, okCart, okHub) ==
    LET s0 == [s EXCEPT !.err = FALSE]
        s1 == [s0 EXCEPT !.cartItems = Arr(<<>>), !.selectedHub = ""]
        s2 == saveToStorage(s1, Arr(<<>>), okCart)
    IN  IF s2.err THEN s2 ELSE saveHubToStorage(s2, "", okHub)

toggleSidebar_AlwaysOpens(s) == [s EXCEPT !.err = FALSE, !.sidebarOpen = TRUE]

\* toggleSidebar()
toggleSidebar(s) == [s EXCEPT !.err = FALSE, !.sidebarOpen = ~@]

selectHub_NotPersisted(s, hub, okHub) ==
    [s EXCEPT !.err = FALSE, !.selectedHub = hub]

\* selectHub(hub)
selectHub(s, hub, okHub) ==
    LET s0 == [s EXCEPT !.err = FALSE]
    IN  saveHubToStorage([s0 EXCEPT !.selectedHub = hub], hub, okHub)

handleClick_AlwaysAdds(s, place, okCart, okHub) == addToCart(s, place, okCart, okHub)

\* AddToTripButton.handleClick: inCart is items.some((p) => p.id === place.id)
\* of the render the click happens in
handleClick(s, place, okCart, okHub) ==
    IF IsArray(s.cartItems) /\ InCart(s.cartItems.items, place.id)
    THEN removeFromCart(s, place.id, okCart)
    ELSE addToCart(s, place, okCart, okHub)

\* a page load: the module is evaluated anew, the atoms take their initial
\* values, localStorage is what the last page left
freshAtoms(s) ==
    [s EXCEPT !.cartItems = Arr(<<>>), !.selectedHub = "", !.sidebarOpen = FALSE,
              !.err = FALSE]

(***************************************************************************)
(* Shared utilities (src/lib/hub-utils) and the itinerary formatter        *)
(***************************************************************************)
fmtDrive_HourFromSixtyOne(mins) ==
    IF mins <= 60 THEN ToString(mins) \o " min"
    ELSE LET h == mins \div 60
             m == mins % 60
         IN  IF m > 0 THEN ToString(h) \o "h " \o ToString(m) \o "m"
             ELSE ToString(h) \o "h"

\* fmtDrive(mins) of hub-utils
fmtDrive(mins) ==
    IF mins < 60 THEN ToString(mins) \o " min"
    ELSE LET h == mins \div 60
             m == mins % 60
         IN  IF m > 0 THEN ToString(h) \o "h " \o ToString(m) \o "m"
             ELSE ToString(h) \o "h"

\* a number is truthy unless it is null or 0
TruthyNumber(n) == n # null /\ n[1] # 0

\* the line of one place: name and category, the rating if (p.googleRating),
\* the drive time if (hub) and a row of the place names the hub
placeLine(p, hub) ==
    LET base == "  - " \o p.name \o " [" \o p.category \o "]"
        rated == IF TruthyNumber(p.googleRating)
                 THEN base \o " " \o ToString(p.googleRating[1]) ELSE base
        l == IF hub # "" THEN FindHub(p.logistics, hub) ELSE 0
    IN  IF l # 0
        THEN rated \o " | " \o fmtDrive(p.logistics[l].drive_time_mins) \o " drive"
        ELSE rated

\* `*${state}* (${places.length} places)`
groupHeader(g) == "*" \o g.state \o "* (" \o ToString(Len(g.places)) \o " places)"

\* the lines one state group pushes: header, one line per place, a blank line
groupLines(g, hub) ==
    <<groupHeader(g)>> \o [i \in 1..Len(g.places) |-> placeLine(g.places[i], hub)]
        \o <<"">>

\* for (const [state, places] of Object.entries(groups))
RECURSIVE allGroupLines(_, _)
allGroupLines(groups, hub) ==
    IF groups = <<>> THEN <<>>
    ELSE groupLines(Head(groups), hub) \o allGroupLines(Tail(groups), hub)

Title == "*My Northeast India Trip*"
Footer == "Planned with Northeast Explorer"
hubLine(hub) == "Starting from: " \o hub
totalLine(totalMins) == "Total drive time: " \o fmtDrive(totalMins) \o " (approx.)"

itineraryLines_HubBlockAlways(groups, hub, totalMins) ==
    <<Title, "">>
        \o <<hubLine(hub), totalLine(totalMins), "">>
        \o allGroupLines(groups, hub)
        \o <<Footer>>

\* the array `lines` of formatItineraryForWhatsApp when it is joined
itineraryLines(groups, hub, totalMins) ==
    <<Title, "">>
        \o (IF hub # "" THEN <<hubLine(hub), totalLine(totalMins), "">> ELSE <<>>)
        \o allGroupLines(groups, hub)
        \o <<Footer>>

\* lines.join("\n")
RECURSIVE Join(_, _)
Join(lines, sep) ==
    IF lines = <<>> THEN ""
    ELSE IF Len(lines) = 1 THEN lines[1]
    ELSE lines[1] \o sep \o Join(Tail(lines), sep)

formatItineraryForWhatsApp(groups, hub, totalMins) ==
    Join(itineraryLines(groups, hub, totalMins), "\n")

(***************************************************************************)
(* TripPlannerMap: distance and drive time helpers                         *)
(*                                                                         *)
(* JavaScript numbers are doubles.  The model computes in fixed point:     *)
(* coordinates in hundredths of a degree, angles in millionths of a        *)
(* radian, distances in metres.  A quotient is rounded toward zero, so     *)
(* that, as in IEEE arithmetic, negating an operand negates the result.    *)
(* TLC reports an overflow of its 32-bit integers as an error; the         *)
(* coordinates below lie less than 3.4 degrees apart, which keeps every    *)
(* product in range.                                                       *)
(***************************************************************************)
Quot(n, d) == IF n >= 0 THEN n \div d ELSE -((-n) \div d)

RADIUS_KM == 50
\* const R = 6371
R == 6371

\* (x * Math.PI) / 180, x in hundredths of a degree
Radians(x) == Quot(x * 174533, 1000)

\* Math.sin of a small angle: x - x^3/6
Sin(x) == x - Quot(Quot(x * x, 1000000) * x, 6000000)

\* Math.cos, in ten-thousandths: 1 - x^2/2 + x^4/24 - x^6/720
Cos(x) ==
    LET y == Quot(x, 100)
        y2 == Quot(y * y, 10000)
    IN  10000 - Quot(y2, 2) + Quot(y2 * y2, 240000)
              - Quot(Quot(y2 * y2, 10000) * y2, 7200000)

\* Math.sqrt: the largest r with r * r <= n, found by bisection of lo..hi
RECURSIVE SqrtIn(_, _, _)
SqrtIn(n, lo, hi) ==
    IF hi - lo <= 1 THEN lo
    ELSE LET mid == (lo + hi) \div 2
         IN  IF mid * mid <= n THEN SqrtIn(n, mid, hi) ELSE SqrtIn(n, lo, mid)

Sqrt(n) == SqrtIn(n, 0, 46341)

\* Math.asin of a small number: x + x^3/6
Asin(x) == x + Quot(Quot(x * x, 1000000) * x, 6000000)

haversine_OneLatitude(lat1, lon1, lat2, lon2) ==
    LET dLat == Radians(lat2 - lat1)
        dLon == Radians(lon2 - lon1)
        sLat == Sin(Quot(dLat, 2))
        sLon == Sin(Quot(dLon, 2))
        a == sLat * sLat
               + Quot(Cos(Radians(lat1)) * Cos(Radians(lat1)), 10000)
                   * Quot(sLon * sLon, 10000)
    IN  Quot(R * 2 * Asin(Sqrt(a)), 1000)

\* haversine(lat1, lon1, lat2, lon2), in metres
haversine(lat1, lon1, lat2, lon2) ==
    LET dLat == Radians(lat2 - lat1)
        dLon == Radians(lon2 - lon1)
        sLat == Sin(Quot(dLat, 2))
        sLon == Sin(Quot(dLon, 2))
        a == sLat * sLat
               + Quot(Cos(Radians(lat1)) * Cos(Radians(lat2)), 10000)
                   * Quot(sLon * sLon, 10000)
    IN  Quot(R * 2 * Asin(Sqrt(a)), 1000)

\* fmtDrive(mins) of the map component
MapFmtDrive(mins) ==
    IF mins < 60 THEN ToString(mins) \o " min"
    ELSE LET h == mins \div 60
             m == mins % 60
         IN  IF m > 0 THEN ToString(h) \o "h " \o ToString(m) \o "m"
             ELSE ToString(h) \o "h"

\* Math.round of the quotient n / d of two non-negative integers
Round(n, d) == (2 * n + d) \div (2 * d)

estimateDriveMins_RoundedDown(dist) == (dist * 14 * 60) \div (10 * 35 * 1000)

\* Math.round((dist * 1.4) / 35 * 60), dist in metres
estimateDriveMins(dist) == Round(dist * 14 * 60, 10 * 35 * 1000)

(***************************************************************************)
(* TripPlannerMap: the component                                           *)
(***************************************************************************)
\* bound on the getCurrentPosition requests in flight at one time
MaxPending == 2

\* the props of the component: hubs (slug, name, fullName, lat, lng) and
\* places (id, lat, lng, logistics), coordinates in hundredths of a degree
Hub(slug, name, fullName, lat, lng) ==
    [slug |-> slug, name |-> name, fullName |-> fullName, lat |-> lat, lng |-> lng]

MapPlace(id, lat, lng, logistics) ==
    [id |-> id, lat |-> lat, lng |-> lng, logistics |-> logistics]

hubs ==
    <<Hub("guwahati-airport", "Guwahati", Guwahati, 2611, 9159),
      Hub("shillong-airport", "Shillong", Shillong, 2570, 9198)>>

\* the second place names a hub by its short name, the third names one hub
\* in two rows
places ==
    <<MapPlace("p1", 2617, 9171, <<LogisticsEntry(Guwahati, 30)>>),
      MapPlace("p2", 2528, 9169, <<LogisticsEntry("Guwahati", 99)>>),
      MapPlace("p3", 2658, 9317,
          <<LogisticsEntry(Shillong, 300), LogisticsEntry(Guwahati, 240),
            LogisticsEntry(Shillong, 310)>>)>>

HubSlugs == {hubs[i].slug : i \in 1..Len(hubs)}

\* positions the device reports
UserPositions == {<<2615, 9174>>, <<2575, 9188>>}

\* GeolocationPositionError.code: PERMISSION_DENIED, POSITION_UNAVAILABLE, TIMEOUT
ErrorCodes == {1, 2, 3}

NotSupported == "Geolocation not supported by your browser."
Locating == "Locating..."
Denied == "Location permission denied."
Unable == "Unable to retrieve location."

\* hubs.find((h) => h.slug === selectedHub): index of the first match, 0 for undefined
FindSlug(slug) ==
    LET hits == {i \in 1..Len(hubs) : hubs[i].slug = slug}
    IN  IF hits = {} THEN 0 ELSE CHOOSE i \in hits : \A j \in hits : i <= j

\* originLat, originLng: null unless both are known
Origin(hub, coords) ==
    IF hub = "my-location" THEN coords
    ELSE LET h == FindSlug(hub)
         IN  IF h = 0 THEN null ELSE <<hubs[h].lat, hubs[h].lng>>

hubDriveTime_ByShortName(p, hub) ==
    IF hub # "" /\ hub # "my-location" /\ FindSlug(hub) # 0
    THEN LET match == FindHub(p.logistics, hubs[FindSlug(hub)].name)
         IN  IF match # 0 THEN Num(p.logistics[match].drive_time_mins) ELSE null
    ELSE null

\* the drive time from the selected hub, if it is a known hub and a row of
\* the place carries its full name
hubDriveTime(p, hub) ==
    IF hub # "" /\ hub # "my-location" /\ FindSlug(hub) # 0
    THEN LET match == FindHub(p.logistics, hubs[FindSlug(hub)].fullName)
         IN  IF match # 0 THEN Num(p.logistics[match].drive_time_mins) ELSE null
    ELSE null

isInside_Strictly(dist) == dist # null /\ dist[1] < RADIUS_KM * 1000

\* const inside = dist != null && dist <= RADIUS_KM, dist in metres
isInside(dist) == dist # null /\ dist[1] <= RADIUS_KM * 1000

\* what the marker of one place is built from: dist, inside, driveTime
popup(p, hub, coords) ==
    LET origin == Origin(hub, coords)
        dist == IF origin # null
                THEN Num(haversine(origin[1], origin[2], p.lat, p.lng)) ELSE null
        driveTime == IF hub = "my-location" /\ dist # null
                     THEN Num(estimateDriveMins(dist[1]))
                     ELSE hubDriveTime(p, hub)
    IN  [dist |-> dist,
         inside |-> isInside(dist),
         driveTime |-> driveTime,
         driveHtml |-> IF driveTime # null THEN MapFmtDrive(driveTime[1]) ELSE ""]

\* the state of the component as a handler finds it
MapState ==
    [selectedHub |-> mapSelectedHub, userCoords |-> userCoords, geoStatus |-> geoStatus,
     placesInRadius |-> placesInRadius, popups |-> popups, pending |-> pending,
     layers |-> layers, radiusCircle |-> radiusCircle, hubMarker |-> hubMarker]

\* the marker effect, which runs after a render that changed selectedHub or
\* userCoords: one marker per place, then setPlacesInRadius(insideCount)
plotMarkers(m) ==
    LET shown == [i \in 1..Len(places) |-> popup(places[i], m.selectedHub, m.userCoords)]
    IN  [m EXCEPT !.popups = shown,
                  !.placesInRadius = Cardinality({i \in 1..Len(places) : shown[i].inside})]

\* map.current.removeLayer(ref.current), if the ref holds a layer: the layers
\* of the map without that one
RECURSIVE removeLayer(_, _)
removeLayer(on, ref) ==
    IF ref = null \/ on = <<>> THEN on
    ELSE IF Head(on) = ref[1] THEN Tail(on)
    ELSE <<Head(on)>> \o removeLayer(Tail(on), ref)

\* center and label of the radius effect: the device's coordinates, or the
\* selected hub if it is a known one
Center(m) ==
    IF m.selectedHub = "my-location" /\ m.userCoords # null
    THEN <<[at |-> m.userCoords, label |-> "You are here"]>>
    ELSE IF m.selectedHub # "" /\ FindSlug(m.selectedHub) # 0
    THEN LET hub == hubs[FindSlug(m.selectedHub)]
         IN  <<[at |-> <<hub.lat, hub.lng>>, label |-> hub.name]>>
    ELSE null

Circle(center) == [kind |-> "circle", at |-> center.at, radius |-> RADIUS_KM * 1000]
Marker(center) == [kind |-> "marker", at |-> center.at, label |-> center.label]

drawOrigin_KeepsOldLayers(m) ==
    LET center == Center(m)
    IN  IF center # null
        THEN [m EXCEPT !.layers = @ \o <<Circle(center[1]), Marker(center[1])>>,
                       !.radiusCircle = <<Circle(center[1])>>,
                       !.hubMarker = <<Marker(center[1])>>]
        ELSE [m EXCEPT !.radiusCircle = null, !.hubMarker = null]

\* the radius effect, which runs after a render that changed selectedHub or
\* userCoords: remove the old circle and marker, draw new ones if there is a center
drawOrigin(m) ==
    LET cleared == removeLayer(removeLayer(m.layers, m.radiusCircle), m.hubMarker)
        center == Center(m)
    IN  IF center # null
        THEN [m EXCEPT !.layers = cleared \o <<Circle(center[1]), Marker(center[1])>>,
                       !.radiusCircle = <<Circle(center[1])>>,
                       !.hubMarker = <<Marker(center[1])>>]
        ELSE [m EXCEPT !.layers = cleared, !.radiusCircle = null, !.hubMarker = null]

\* the effects of a render, in the order the component declares them
runEffects(m) == drawOrigin(plotMarkers(m))

onChange_ClearsStatus(m, value) ==
    runEffects([m EXCEPT !.selectedHub = value, !.geoStatus = ""])

\* the hub dropdown: onChange={(e) => setSelectedHub(e.target.value)}
onChange(m, value) == runEffects([m EXCEPT !.selectedHub = value])

\* findNearMe() up to the call of getCurrentPosition
findNearMe(m, supported) ==
    IF ~supported THEN [m EXCEPT !.geoStatus = NotSupported]
    ELSE [m EXCEPT !.geoStatus = Locating, !.pending = @ + 1]

onPosition_KeepsFirstFix(m, coords) ==
    runEffects([m EXCEPT !.userCoords = IF @ = null THEN coords ELSE @,
                         !.selectedHub = "my-location",
                         !.geoStatus = "", !.pending = @ - 1])

onPosition_KeepsStatus(m, coords) ==
    runEffects([m EXCEPT !.userCoords = coords, !.selectedHub = "my-location",
                         !.pending = @ - 1])

\* the success callback of getCurrentPosition
onPosition(m, coords) ==
    runEffects([m EXCEPT !.userCoords = coords, !.selectedHub = "my-location",
                          !.geoStatus = "", !.pending = @ - 1])

onPositionError_DropsOrigin(m, code) ==
    runEffects([m EXCEPT !.geoStatus = IF code = 1 THEN Denied ELSE Unable,
                          !.selectedHub = "", !.pending = @ - 1])

\* the error callback of getCurrentPosition
onPositionError(m, code) ==
    [m EXCEPT !.geoStatus = IF code = 1 THEN Denied ELSE Unable, !.pending = @ - 1]

onReset_KeepsSelection(m) == runEffects([m EXCEPT !.userCoords = null])

\* the Reset button
onReset(m) == runEffects([m EXCEPT !.selectedHub = "", !.userCoords = null])

\* the component after its first render and effects
Mounted(supported) ==
    LET m == runEffects([selectedHub |-> "", userCoords |-> null, geoStatus |-> "",
                         placesInRadius |-> 0, popups |-> <<>>, pending |-> 0,
                         layers |-> <<>>, radiusCircle |-> null, hubMarker |-> null])
    IN  /\ mapSelectedHub = m.selectedHub
        /\ userCoords = m.userCoords
        /\ geoStatus = m.geoStatus
        /\ placesInRadius = m.placesInRadius
        /\ popups = m.popups
        /\ pending = m.pending
        /\ layers = m.layers
        /\ radiusCircle = m.radiusCircle
        /\ hubMarker = m.hubMarker
        /\ geolocation = supported

(***************************************************************************)
(* Calls of the pure functions                                             *)
(***************************************************************************)
\* largest number of minutes formatted
MaxMins == 200
\* longest cart handed to the formatter
MaxCart == 2

\* the strings selectHub is called with: the sidebar offers "" and
\* $availableHubs, the function itself takes any string
HubChoices == {"", Guwahati, Dibrugarh}

\* no call is being looked at
Idle == [fn |-> "none"]

\* a place rated 0, which the content schema allows (min: 0)
P4 == CartPlace("p4", "Dawki", "Scenic Spot", "Meghalaya", Num(0),
        <<LogisticsEntry(Guwahati, 135)>>)

FormatPlaces == {P1, P2, P3, P4}

\* the carts of at most n entries, one entry per place
Carts(n) ==
    LET picks == UNION {[1..k -> FormatPlaces] : k \in 0..n}
        once == {c \in picks : \A i, j \in 1..Len(c) : c[i] = c[j] => i = j}
    IN  {[i \in 1..Len(c) |-> Entry(c[i], i)] : c \in once}

\* the coordinates that occur in the props of the map and in the device's reports
Points ==
    {<<hubs[i].lat, hubs[i].lng>> : i \in 1..Len(hubs)}
        \cup {<<places[i].lat, places[i].lng>> : i \in 1..Len(places)}
        \cup UserPositions

DriveCalls ==
    {[fn |-> "fmtDrive", mins |-> m, done |-> FALSE, out |-> "", outMap |-> ""] :
        m \in 0..MaxMins}

DistanceCalls ==
    {[fn |-> "haversine", a |-> a, b |-> b, done |-> FALSE, out |-> 0] :
        a \in Points, b \in Points}

\* TripSidebar hands the formatter $groupedByState, $selectedHub, $totalDriveMins
ItineraryCalls ==
    {[fn |-> "formatItinerary", items |-> c, hub |-> h, done |-> FALSE,
      lines |-> <<>>, out |-> ""] : c \in Carts(MaxCart), h \in HubChoices}

(***************************************************************************)
(* The state machine                                                       *)
(***************************************************************************)
\* what the last step was: the handler that ran, whether it found the id it was
\* given in the cart (addToCart, removeFromCart), whether one of its storage
\* writes failed, and how far a clearCart / page load / loadFromStorage run got
Last(op, hit, failed, run) == [op |-> op, hit |-> hit, failed |-> failed, run |-> run]

\* The session of a page against localStorage: "fresh" from the page load
\* until loadFromStorage or a mutation runs; "hydrated" once loadFromStorage
\* ran before any mutation and while no write has failed since; "adrift"
\* after a mutation that came before loadFromStorage, a failed write, or a
\* write by somebody else.  "untracked": the behaviour keeps no such history.
Mutates(l) ==
    \/ l.op \in {"removeFromCart", "clearCart", "selectHub"}
    \/ l.op = "addToCart" /\ ~l.hit

NextSession(now, l) ==
    IF now = "untracked" THEN now
    ELSE IF l.op = "reload" THEN "fresh"
    ELSE IF l.op = "loadFromStorage" THEN (IF now = "fresh" THEN "hydrated" ELSE now)
    ELSE IF l.op = "foreignWrite" THEN "adrift"
    ELSE IF Mutates(l) THEN (IF now = "hydrated" /\ ~l.failed THEN now ELSE "adrift")
    ELSE now

Track == session' = NextSession(session, last')

Apply(r) ==
    /\ cartItems' = r.cartItems
    /\ selectedHub' = r.selectedHub
    /\ sidebarOpen' = r.sidebarOpen
    /\ storedCart' = r.storedCart
    /\ storedHub' = r.storedHub
    /\ err' = r.err
    /\ clock' = r.clock
    /\ UNCHANGED <<mapVars, probe>>

StoreInit ==
    /\ cartItems = Arr(<<>>)
    /\ selectedHub = ""
    /\ sidebarOpen = FALSE
    /\ storedCart = Absent
    /\ storedHub = NULL
    /\ err = FALSE
    /\ clock = 0
    /\ last = Last("init", FALSE, FALSE, 0)

Init ==
    /\ StoreInit
    /\ session = "untracked"
    /\ Mounted(TRUE)
    /\ probe = Idle

\* the cart is a list that holds an entry with this id
Holds(id) == IsArray(cartItems) /\ InCart(cartItems.items, id)

AddToCart(place, okCart, okHub) ==
    /\ (IsArray(cartItems) /\ ~Holds(place.id)) => clock < MaxAdds
    /\ LET r == addToCart(Store, place, okCart, okHub)
       IN  /\ Apply(r)
           /\ last' = Last("addToCart", Holds(place.id), r.failed, 0)
           /\ Track

RemoveFromCart(id, okCart) ==
    /\ LET r == removeFromCart(Store, id, okCart)
       IN  /\ Apply(r)
           /\ last' = Last("removeFromCart", Holds(id), r.failed, 0)
           /\ Track

ClearCart(okCart, okHub) ==
    /\ LET r == clearCart(Store, okCart, okHub)
       IN  /\ Apply(r)
           /\ last' = Last("clearCart", FALSE, r.failed, 1)
           /\ Track

ToggleSidebar ==
    /\ Apply(toggleSidebar(Store))
    /\ last' = Last("toggleSidebar", FALSE, FALSE, 0)
    /\ Track

SelectHub(hub, okHub) ==
    /\ LET r == selectHub(Store, hub, okHub)
       IN  /\ Apply(r)
           /\ last' = Last("selectHub", FALSE, r.failed, 0)
           /\ Track

LoadFromStorage ==
    /\ Apply(loadFromStorage(Store))
    /\ last' = IF last.run = 2 THEN Last("loadFromStorage", FALSE, last.failed, 3)
               ELSE Last("loadFromStorage", FALSE, FALSE, 0)
    /\ Track

Reload ==
    /\ Apply(freshAtoms(Store))
    /\ last' = IF last.run = 1 THEN Last("reload", FALSE, last.failed, 2)
               ELSE Last("reload", FALSE, FALSE, 0)
    /\ Track

Next ==
    \/ \E place \in Places, okCart, okHub \in BOOLEAN : AddToCart(place, okCart, okHub)
    \/ \E id \in PlaceIds, okCart \in BOOLEAN : RemoveFromCart(id, okCart)
    \/ \E okCart, okHub \in BOOLEAN : ClearCart(okCart, okHub)
    \/ ToggleSidebar
    \/ \E hub \in HubChoices, okHub \in BOOLEAN : SelectHub(hub, okHub)
    \/ LoadFromStorage
    \/ Reload

Spec == Init /\ [][Next]_vars

\* Another writer of the origin's localStorage (an older release of the site,
\* the user's developer tools) replaces or removes the ne-trip-cart key.
ForeignTexts == {Absent, EmptyText, GarbageText, ObjectText}

ForeignWrite(raw) ==
    /\ storedCart' = raw
    /\ last' = Last("foreignWrite", FALSE, FALSE, 0)
    /\ Track
    /\ UNCHANGED <<cartItems, selectedHub, sidebarOpen, storedHub, err, clock>>
    /\ UNCHANGED <<mapVars, probe>>

NextForeign ==
    \/ Next
    \/ \E raw \in ForeignTexts : ForeignWrite(raw)

SpecForeign == Init /\ [][NextForeign]_vars

\* The same store with the history of its sessions kept.
InitSessions ==
    /\ StoreInit
    /\ session = "fresh"
    /\ Mounted(TRUE)
    /\ probe = Idle

SpecSessions == InitSessions /\ [][Next]_vars

(***************************************************************************)
(* The state machine of the map                                            *)
(***************************************************************************)
\* what the last step of the map was, and the value it was given
MapStep(op, arg) == [op |-> op, arg |-> arg]

ApplyMap(m) ==
    /\ mapSelectedHub' = m.selectedHub
    /\ userCoords' = m.userCoords
    /\ geoStatus' = m.geoStatus
    /\ placesInRadius' = m.placesInRadius
    /\ popups' = m.popups
    /\ pending' = m.pending
    /\ layers' = m.layers
    /\ radiusCircle' = m.radiusCircle
    /\ hubMarker' = m.hubMarker
    /\ UNCHANGED <<geolocation, probe>>
    /\ UNCHANGED <<cartItems, selectedHub, sidebarOpen, storedCart, storedHub, err,
                   clock, session>>

\* the values the dropdown offers: "", my-location once coordinates are
\* known, and the slug of every hub
Options == {""} \cup (IF userCoords # null THEN {"my-location"} ELSE {}) \cup HubSlugs

OnChange(value) ==
    /\ value \in Options
    /\ ApplyMap(onChange(MapState, value))
    /\ last' = MapStep("onChange", value)

FindNearMe ==
    /\ geolocation => pending < MaxPending
    /\ ApplyMap(findNearMe(MapState, geolocation))
    /\ last' = MapStep("findNearMe", geolocation)

OnPosition(coords) ==
    /\ pending > 0
    /\ ApplyMap(onPosition(MapState, coords))
    /\ last' = MapStep("onPosition", coords)

OnPositionError(code) ==
    /\ pending > 0
    /\ ApplyMap(onPositionError(MapState, code))
    /\ last' = MapStep("onPositionError", code)

OnReset ==
    /\ mapSelectedHub # ""
    /\ ApplyMap(onReset(MapState))
    /\ last' = MapStep("onReset", "")

InitMap ==
    /\ StoreInit
    /\ session = "untracked"
    /\ \E supported \in BOOLEAN : Mounted(supported)
    /\ probe = Idle

NextMap ==
    \/ \E value \in {"", "my-location"} \cup HubSlugs : OnChange(value)
    \/ FindNearMe
    \/ \E coords \in UserPositions : OnPosition(coords)
    \/ \E code \in ErrorCodes : OnPositionError(code)
    \/ OnReset

SpecMap == InitMap /\ [][NextMap]_vars

(***************************************************************************)
(* A page with the store's hub selector and the map                        *)
(***************************************************************************)
NextPage ==
    \/ \E hub \in HubChoices, okHub \in BOOLEAN : SelectHub(hub, okHub)
    \/ \E okCart, okHub \in BOOLEAN : AddToCart(P1, okCart, okHub)
    \/ \E value \in {"", "my-location"} \cup HubSlugs : OnChange(value)
    \/ FindNearMe
    \/ \E coords \in UserPositions : OnPosition(coords)
    \/ \E code \in ErrorCodes : OnPositionError(code)
    \/ OnReset

SpecPage == Init /\ [][NextPage]_vars

(***************************************************************************)
(* Pages with add-to-trip buttons and the cart toggle                      *)
(***************************************************************************)
\* a click on the button of a place; the step records the place's id
Click(place, okCart, okHub) ==
    /\ ~Holds(place.id) => clock < MaxAdds
    /\ LET r == handleClick(Store, place, okCart, okHub)
       IN  /\ Apply(r)
           /\ last' = [op |-> "click", hit |-> Holds(place.id), failed |-> r.failed,
                       run |-> 0, id |-> place.id]
           /\ Track

NextButtons ==
    \/ \E place \in Places, okCart, okHub \in BOOLEAN : Click(place, okCart, okHub)
    \/ LoadFromStorage
    \/ Reload

SpecButtons == Init /\ [][NextButtons]_vars

(***************************************************************************)
(* Calls of the pure functions, one per behaviour                          *)
(***************************************************************************)
Return(r) ==
    /\ probe' = r
    /\ UNCHANGED <<storeVars, mapVars>>

CallFmtDrive ==
    /\ probe.fn = "fmtDrive" /\ ~probe.done
    /\ Return([probe EXCEPT !.done = TRUE, !.out = fmtDrive(probe.mins),
                            !.outMap = MapFmtDrive(probe.mins)])

CallHaversine ==
    /\ probe.fn = "haversine" /\ ~probe.done
    /\ Return([probe EXCEPT !.done = TRUE,
                  !.out = haversine(probe.a[1], probe.a[2], probe.b[1], probe.b[2])])

CallFormatItinerary ==
    /\ probe.fn = "formatItinerary" /\ ~probe.done
    /\ LET groups == groupedByState(probe.items)
           totalMins == totalDriveMins(probe.items, probe.hub)
       IN  Return([probe EXCEPT !.done = TRUE,
                     !.lines = itineraryLines(groups, probe.hub, totalMins),
                     !.out = formatItineraryForWhatsApp(groups, probe.hub, totalMins)])

InitPure ==
    /\ StoreInit
    /\ session = "untracked"
    /\ Mounted(TRUE)
    /\ probe \in DriveCalls \cup DistanceCalls \cup ItineraryCalls

NextPure ==
    \/ CallFmtDrive
    \/ CallHaversine
    \/ CallFormatItinerary

SpecPure == InitPure /\ [][NextPure]_vars

(***************************************************************************)
(* Properties of the store                                                 *)
(***************************************************************************)
Items == cartItems.items
Mem == <<cartItems, selectedHub, sidebarOpen>>
Keys == <<storedCart, storedHub>>

\* the entry that a place becomes, whatever call appended it
SameData(e, place) ==
    /\ e.id = place.id
    /\ e.name = place.name
    /\ e.category = place.category
    /\ e.state = place.state
    /\ e.googleRating = place.googleRating
    /\ e.logistics = place.logistics

\* C1: in every reachable state the cart is a list with at most one entry per
\* place id, and its entries stand in the order of the addToCart calls that
\* appended them.
C1_OneEntryPerIdInAddOrder ==
    /\ IsArray(cartItems)
    /\ \A i, j \in 1..Len(Items) :
          i < j => Items[i].id # Items[j].id /\ Items[i].at < Items[j].at

\* p1 was added, removed and added again behind p2, and the cart was then
\* loaded from storage
C1_Witness ==
    /\ last.op = "loadFromStorage"
    /\ Len(Items) = 2
    /\ Items[1].id = "p2" /\ Items[1].at = 2
    /\ Items[2].id = "p1" /\ Items[2].at = 3

\* C2: a step of addToCart(place) from a cart that holds place.id changes
\* neither the cart, the selected hub, the sidebar flag nor a storage key.
C2_DuplicateAddChangesNothing ==
    [][(last'.op = "addToCart" /\ last'.hit) => UNCHANGED <<Mem, Keys>>]_vars

\* a duplicate add has just run on a non-empty cart whose sidebar is closed
C2_Witness ==
    /\ last.op = "addToCart" /\ last.hit
    /\ Len(Items) >= 1
    /\ ~sidebarOpen

\* C3: a step of addToCart(place) from a cart that does not hold place.id
\* appends the place as last entry and leaves the sidebar open; an empty
\* selected hub becomes the head of the ranking of the new cart when that
\* ranking is not empty and stays empty otherwise; a non-empty selected hub
\* stays. Adding P1 and then P2 to an empty cart with no hub gives hub
\* Guwahati, two groups of one entry, 30 minutes.
C3_NewAddAppendsAndAutoSelects ==
    [][(last'.op = "addToCart" /\ ~last'.hit) =>
       \A place \in Places, okCart, okHub \in BOOLEAN :
          AddToCart(place, okCart, okHub)
              => /\ Len(Items') = Len(Items) + 1
                 /\ SubSeq(Items', 1, Len(Items)) = Items
                 /\ SameData(Items'[Len(Items')], place)
                 /\ sidebarOpen'
                 /\ (selectedHub # "") => selectedHub' = selectedHub
                 /\ (selectedHub = "" /\ availableHubs(Items') # <<>>)
                       => selectedHub' = availableHubs(Items')[1]
                 /\ (selectedHub = "" /\ \A i \in 1..Len(Items') : Items'[i].logistics = <<>>)
                       => selectedHub' = ""
                 /\ (Items = <<>> /\ selectedHub = "" /\ place = P1)
                       => selectedHub' = Guwahati
                 /\ (Len(Items) = 1 /\ SameData(Items[1], P1) /\ selectedHub = Guwahati
                        /\ place = P2)
                       => /\ selectedHub' = Guwahati
                          /\ Len(groupedByState(Items')) = 2
                          /\ \A g \in 1..2 : Len(groupedByState(Items')[g].places) = 1
                          /\ totalDriveMins(Items', selectedHub') = 30]_vars

\* P2 has just been added behind P1: hub Guwahati, sidebar open
C3_Witness ==
    /\ last.op = "addToCart" /\ ~last.hit
    /\ Len(Items) = 2
    /\ SameData(Items[1], P1) /\ SameData(Items[2], P2)
    /\ selectedHub = Guwahati
    /\ sidebarOpen
    /\ totalDriveMins(Items, selectedHub) = 30

\* positions <<i, k>> of the logistics rows of the cart that name hub h, in
\* scanning order (entry i of the cart, row k of its logistics)
Refs(items, h) ==
    UNION {{<<i, k>> : k \in {r \in 1..Len(items[i].logistics) :
                                  items[i].logistics[r].hub_name = h}} :
           i \in 1..Len(items)}

Earlier(a, b) == a[1] < b[1] \/ (a[1] = b[1] /\ a[2] < b[2])

FirstRef(items, h) == CHOOSE a \in Refs(items, h) : \A b \in Refs(items, h) : a = b \/ Earlier(a, b)

\* the entries of the cart whose logistics name hub h
Covering(items, h) == {i \in 1..Len(items) : \E a \in Refs(items, h) : a[1] = i}

\* C4: for every cart, $availableHubs lists exactly the hub names of the
\* cart's logistics rows, each once, by descending number of rows naming the
\* hub, hubs with equally many rows in the order of their first row; 3 rows
\* for Guwahati and 1 for Dibrugarh give <<Guwahati, Dibrugarh>>.
C4_HubsRankedByReferences ==
    LET ranked == availableHubs(Items)
        n(h) == Cardinality(Refs(Items, h))
    IN  /\ {ranked[a] : a \in 1..Len(ranked)} = {h \in HubNames : Refs(Items, h) # {}}
        /\ \A a, b \in 1..Len(ranked) :
              a < b => \/ n(ranked[a]) > n(ranked[b])
                       \/ /\ n(ranked[a]) = n(ranked[b])
                          /\ Earlier(FirstRef(Items, ranked[a]), FirstRef(Items, ranked[b]))
        /\ availableHubs(<<[logistics |-> <<LogisticsEntry(Dibrugarh, 10),
                                            LogisticsEntry(Guwahati, 20)>>],
                           [logistics |-> <<LogisticsEntry(Guwahati, 30)>>],
                           [logistics |-> <<LogisticsEntry(Guwahati, 40)>>]>>)
              = <<Guwahati, Dibrugarh>>

\* the cart <<P3>>: Shillong and Guwahati have one row each, Dibrugarh three
C4_Witness ==
    /\ Len(Items) = 1 /\ SameData(Items[1], P3)
    /\ availableHubs(Items) = <<Dibrugarh, Shillong, Guwahati>>

\* C5: $availableHubs is ordered by the number of cart entries that name the
\* hub: a hub never stands before one that more entries name.
C5_RankedByCoveringEntries ==
    LET ranked == availableHubs(Items)
    IN  \A a, b \in 1..Len(ranked) :
           a < b => Cardinality(Covering(Items, ranked[a])) >= Cardinality(Covering(Items, ranked[b]))

\* what entry i of the cart adds to the total for hub h: the drive time of its
\* first row naming h, 0 when there is none
Contribution(items, i, h) ==
    LET mine == {a \in Refs(items, h) : a[1] = i}
    IN  IF mine = {} THEN 0
        ELSE LET first == CHOOSE a \in mine : \A b \in mine : a[2] <= b[2]
             IN  items[i].logistics[first[2]].drive_time_mins

RECURSIVE SumOver(_, _, _)
SumOver(items, n, h) ==
    IF n = 0 THEN 0 ELSE SumOver(items, n - 1, h) + Contribution(items, n, h)

\* C6: for every cart and selected hub, $totalDriveMins is the sum over the
\* entries of the drive time of the entry's first row naming the hub, entries
\* without such a row adding 0; it is 0 for the empty hub and for a hub no
\* row names.
C6_TotalIsSumOfFirstMatches ==
    LET total == totalDriveMins(Items, selectedHub)
    IN  /\ total = SumOver(Items, Len(Items), selectedHub)
        /\ selectedHub = "" => total = 0
        /\ Refs(Items, selectedHub) = {} => total = 0

\* hub Guwahati, P3 with a 40 minute row for it and P2 with none: 40; and
\* hub Dibrugarh, which P3 names in three rows: the first one, 15
C6_Witness ==
    /\ Len(Items) = 2 /\ SameData(Items[1], P3) /\ SameData(Items[2], P2)
    /\ \/ selectedHub = Guwahati /\ totalDriveMins(Items, selectedHub) = 40
       \/ selectedHub = Dibrugarh /\ totalDriveMins(Items, selectedHub) = 15

\* C7: a step of removeFromCart(id) leaves in the cart exactly the entries
\* with another id, in their order, and changes neither the selected hub nor
\* the sidebar flag; when no entry has the id the cart is unchanged too.
C7_RemoveTouchesOnlyTheEntry ==
    [][(last'.op = "removeFromCart") =>
       \A id \in PlaceIds, okCart \in BOOLEAN :
          RemoveFromCart(id, okCart)
              => /\ Items' = SelectSeq(Items, LAMBDA e : e.id # id)
                 /\ Len(Items') = Len(Items) - (IF Holds(id) THEN 1 ELSE 0)
                 /\ selectedHub' = selectedHub
                 /\ sidebarOpen' = sidebarOpen
                 /\ ~Holds(id) => cartItems' = cartItems]_vars

\* the only entry, the one the selected hub came from, has just been removed
C7_Witness ==
    /\ last.op = "removeFromCart" /\ last.hit
    /\ Items = <<>>
    /\ selectedHub = Guwahati

MemOf(r) == <<r.cartItems, r.selectedHub, r.sidebarOpen>>

\* what C9 asks of the outcome r of a handler some of whose writes were
\* refused, r0 being the outcome of the same call with both writes accepted
LosesOnlyTheWrite(r, r0, okCart, okHub) ==
    r.failed =>
       /\ ~r.err
       /\ MemOf(r) = MemOf(r0)
       /\ ~okCart => r.storedCart = storedCart
       /\ ~okHub => r.storedHub = storedHub

\* the ways the two writes of a handler can go when not both are accepted
Refusals == {<<FALSE, TRUE>>, <<TRUE, FALSE>>, <<FALSE, FALSE>>}

\* C9: in every reachable state, a call of addToCart, removeFromCart,
\* clearCart or selectHub in which a storage write fails lets no exception
\* escape, leaves cart, selected hub and sidebar flag as the same call with
\* successful writes does, and leaves the key whose write failed as it was.
C9_FailedWriteOnlyLosesTheWrite ==
    /\ \A place \in Places, ok \in Refusals :
          LET r == addToCart(Store, place, ok[1], ok[2])
          IN  LosesOnlyTheWrite(r, addToCart(Store, place, TRUE, TRUE), ok[1], ok[2])
    /\ \A id \in PlaceIds :
          LET r == removeFromCart(Store, id, FALSE)
          IN  LosesOnlyTheWrite(r, removeFromCart(Store, id, TRUE), FALSE, TRUE)
    /\ \A ok \in Refusals :
          LET r == clearCart(Store, ok[1], ok[2])
          IN  LosesOnlyTheWrite(r, clearCart(Store, TRUE, TRUE), ok[1], ok[2])
    /\ \A hub \in HubChoices :
          LET r == selectHub(Store, hub, FALSE)
          IN  LosesOnlyTheWrite(r, selectHub(Store, hub, TRUE), TRUE, FALSE)

\* the first addToCart of a browser, both of whose writes failed
C9_Witness ==
    /\ last.op = "addToCart" /\ last.failed
    /\ Len(Items) = 1 /\ selectedHub = Guwahati /\ sidebarOpen
    /\ storedCart = Absent /\ storedHub = NULL

\* the atoms as a page load leaves them
Fresh == cartItems = Arr(<<>>) /\ selectedHub = "" /\ ~sidebarOpen

\* C10: a step of loadFromStorage on a freshly loaded page, with the cart key
\* absent, unparseable or holding JSON that is not a list, lets no exception
\* escape and leaves an empty cart and an empty selected hub, of which the
\* views can be computed.
C10_BadStorageStartsEmpty ==
    [][(last'.op = "loadFromStorage" /\ Fresh /\ storedCart \in ForeignTexts) =>
       /\ err' = FALSE
       /\ cartItems' = Arr(<<>>)
       /\ selectedHub' = ""
       /\ ViewsComputable(cartItems')]_vars

\* what loadFromStorage makes of the two keys on a freshly loaded page
Restored == loadFromStorage(freshAtoms(Store))

\* C11: in a session in which loadFromStorage ran before the first mutation
\* and no write has failed, after every step the cart key holds the list of
\* the cart (same entries, same order) and the hub key holds the selected hub
\* (a key never written counting as the empty list and the empty string), so
\* loadFromStorage on a fresh page restores exactly this cart and this hub.
C11_StorageMirrorsMemory ==
    session = "hydrated" =>
        /\ IsArray(cartItems)
        /\ \/ storedCart = [kind |-> "json-array", items |-> Items]
           \/ storedCart = Absent /\ Items = <<>>
        /\ \/ storedHub = selectedHub
           \/ storedHub = NULL /\ selectedHub = ""
        /\ Restored.cartItems = cartItems
        /\ Restored.selectedHub = selectedHub

\* a fresh page whose loadFromStorage has just restored two entries and a hub
C11_Witness ==
    /\ session = "hydrated" /\ last.op = "loadFromStorage"
    /\ Len(Items) = 2 /\ selectedHub = Dibrugarh

\* C12: a step of toggleSidebar negates the sidebar flag and leaves the cart,
\* the selected hub and both storage keys as they were; toggling twice gives
\* back the state it started from; a page load leaves the sidebar closed and
\* loadFromStorage does not touch the flag.
C12_ToggleOnlyFlipsTheFlag ==
    [][/\ last'.op = "toggleSidebar" =>
            /\ sidebarOpen' = ~sidebarOpen
            /\ UNCHANGED <<cartItems, selectedHub, storedCart, storedHub>>
       /\ toggleSidebar(toggleSidebar(Store)) = [Store EXCEPT !.err = FALSE]
       /\ last'.op = "reload" => ~sidebarOpen'
       /\ last'.op = "loadFromStorage" => sidebarOpen' = sidebarOpen]_vars

\* the sidebar of an empty cart, which only toggleSidebar can have opened
C12_Witness ==
    /\ last.op = "toggleSidebar" /\ sidebarOpen
    /\ Items = <<>> /\ clock = 0

\* position in the cart of the first entry of a state
FirstOfState(items, state) ==
    CHOOSE i \in 1..Len(items) :
        /\ items[i].state = state
        /\ \A j \in 1..Len(items) : items[j].state = state => i <= j

RECURSIVE SumSizes(_)
SumSizes(groups) ==
    IF groups = <<>> THEN 0 ELSE Len(Head(groups).places) + SumSizes(Tail(groups))

\* the places at which an entry stands in the groups
Slots(groups, e) ==
    {s \in (1..Len(groups)) \X (1..SumSizes(groups)) :
        /\ s[2] <= Len(groups[s[1]].places)
        /\ groups[s[1]].places[s[2]] = e}

\* C13: $groupedByState partitions the cart: every entry stands in exactly
\* one group, the group of its state; the groups stand in the order in which
\* their states first occur in the cart; the entries of a group stand in
\* cart order; the sizes of the groups add up to $cartCount.
C13_GroupsPartitionTheCart ==
    IsArray(cartItems) =>
        LET groups == groupedByState(Items)
        IN  /\ \A i \in 1..Len(Items) :
                  /\ Cardinality(Slots(groups, Items[i])) = 1
                  /\ \A s \in Slots(groups, Items[i]) : groups[s[1]].state = Items[i].state
            /\ \A k \in 1..Len(groups) :
                  /\ groups[k].places # <<>>
                  /\ \A j \in 1..Len(groups[k].places) :
                        \E i \in 1..Len(Items) : Items[i] = groups[k].places[j]
            /\ \A k, l \in 1..Len(groups) :
                  k < l => FirstOfState(Items, groups[k].state)
                             < FirstOfState(Items, groups[l].state)
            /\ \A k \in 1..Len(groups) : \A a, b \in 1..Len(groups[k].places) :
                  a < b => \E i, j \in 1..Len(Items) :
                              /\ i < j
                              /\ Items[i] = groups[k].places[a]
                              /\ Items[j] = groups[k].places[b]
            /\ SumSizes(groups) = cartCount(Items)

\* two Assam entries with a Meghalaya entry between them
C13_Witness ==
    /\ Len(Items) = 3
    /\ Items[1].state = "Assam" /\ Items[2].state = "Meghalaya" /\ Items[3].state = "Assam"
    /\ Len(groupedByState(Items)) = 2

(***************************************************************************)
(* Properties of the shared utilities                                      *)
(***************************************************************************)
Formatted == probe.fn = "formatItinerary" /\ probe.done

\* C14 as the specification words it: for an empty cart the formatter
\* returns the title line alone, and with a hub selected the title line, the
\* hub line and the total line, and nothing else.
C14_EmptyCartIsTitleOnly ==
    (Formatted /\ probe.items = <<>>) =>
        LET claimed == IF probe.hub = "" THEN <<Title>>
                       ELSE <<Title, hubLine(probe.hub), totalLine(0)>>
        IN  /\ probe.lines = claimed
            /\ probe.out = Join(claimed, "\n")

\* C14: for an empty cart the formatter returns the title line, a blank
\* line and the closing line, no group section; with a hub selected it adds
\* only the hub line, the total line and one more blank line.
C14_EmptyCartIsTitleAndClosingLine ==
    (Formatted /\ probe.items = <<>>) =>
        IF probe.hub = ""
        THEN /\ probe.lines = <<"*My Northeast India Trip*", "",
                                "Planned with Northeast Explorer">>
             /\ probe.out = "*My Northeast India Trip*\n\nPlanned with Northeast Explorer"
        ELSE /\ probe.lines = <<"*My Northeast India Trip*", "",
                                "Starting from: " \o probe.hub,
                                "Total drive time: 0 min (approx.)", "",
                                "Planned with Northeast Explorer">>
             /\ probe.out = Join(probe.lines, "\n")

\* the formatter called with an empty cart while a hub is selected
C14_Witness ==
    /\ Formatted /\ probe.items = <<>> /\ probe.hub = Guwahati
    /\ Len(probe.lines) = 6

\* the line of a place as the specification words it: the rating when it
\* is not null, the drive time when a hub is selected and a row names it
ClaimedPlaceLine(p, hub) ==
    LET rows == {k \in 1..Len(p.logistics) : p.logistics[k].hub_name = hub}
        first == CHOOSE k \in rows : \A l \in rows : k <= l
    IN  "  - " \o p.name \o " [" \o p.category \o "]"
          \o (IF p.googleRating # null THEN " " \o ToString(p.googleRating[1]) ELSE "")
          \o (IF hub # "" /\ rows # {}
              THEN " | " \o fmtDrive(p.logistics[first].drive_time_mins) \o " drive"
              ELSE "")

RECURSIVE ClaimedGroupLines(_, _)
ClaimedGroupLines(groups, hub) ==
    IF groups = <<>> THEN <<>>
    ELSE LET g == Head(groups)
         IN  <<"*" \o g.state \o "* (" \o ToString(Len(g.places)) \o " places)">>
               \o [i \in 1..Len(g.places) |-> ClaimedPlaceLine(g.places[i], hub)]
               \o ClaimedGroupLines(Tail(groups), hub)

NotBlank(line) == line # ""

\* C15: blank lines aside, the lines between the opening block and the
\* closing line are, for each state group in order, its header with the
\* count of its places and then one line per place in order, a place line
\* carrying the rating exactly when the rating is not null and the drive time
\* exactly when a hub is selected and a row of the place names it.
C15_GroupsAndPlaceLines ==
    Formatted =>
        LET text == SelectSeq(probe.lines, NotBlank)
            opening == IF probe.hub = "" THEN 1 ELSE 3
        IN  SubSeq(text, opening + 1, Len(text) - 1)
              = ClaimedGroupLines(groupedByState(probe.items), probe.hub)

\* C16: fmtDrive renders m minutes as "<m> min" below 60, as "<H>h" on a
\* whole number of hours and as "<H>h <M>m" otherwise, so 45, 120 and 135
\* give "45 min", "2h" and "2h 15m"; the copy of the map component returns
\* the same string.
C16_DurationFormat ==
    (probe.fn = "fmtDrive" /\ probe.done) =>
        LET m == probe.mins
            H == m \div 60
            M == m % 60
        IN  /\ m < 60 => probe.out = ToString(m) \o " min"
            /\ (m >= 60 /\ M = 0) => probe.out = ToString(H) \o "h"
            /\ (m >= 60 /\ M # 0) => probe.out = ToString(H) \o "h " \o ToString(M) \o "m"
            /\ m = 45 => probe.out = "45 min"
            /\ m = 120 => probe.out = "2h"
            /\ m = 135 => probe.out = "2h 15m"
            /\ probe.outMap = probe.out

\* both copies called with 135
C16_Witness ==
    /\ probe.fn = "fmtDrive" /\ probe.done /\ probe.mins = 135
    /\ probe.out = "2h 15m" /\ probe.outMap = "2h 15m"

(***************************************************************************)
(* Properties of the map                                                   *)
(***************************************************************************)
\* C17: haversine gives the same distance in both directions and 0 for a
\* point and itself.
C17_DistanceSymmetricAndZeroOnSelf ==
    (probe.fn = "haversine" /\ probe.done) =>
        /\ probe.out = haversine(probe.b[1], probe.b[2], probe.a[1], probe.a[2])
        /\ probe.a = probe.b => probe.out = 0

\* two points that differ in latitude and in longitude
C17_Witness ==
    /\ probe.fn = "haversine" /\ probe.done
    /\ probe.a[1] # probe.b[1] /\ probe.a[2] # probe.b[2]
    /\ probe.out > RADIUS_KM * 1000

\* C18: with a hub selected, the drive time a place shows is that of its
\* first logistics row carrying the hub's full name, and nothing (null, not
\* 0) when it has no such row; with no origin no place shows a drive time.
C18_HubDriveTimeFromMatchingRow ==
    \A i \in 1..Len(places) :
        LET p == places[i]
            shown == popups[i]
        IN  /\ mapSelectedHub \in HubSlugs =>
                  LET hub == CHOOSE h \in {hubs[k] : k \in 1..Len(hubs)} :
                                 h.slug = mapSelectedHub
                      rows == {k \in 1..Len(p.logistics) :
                                  p.logistics[k].hub_name = hub.fullName}
                  IN  IF rows = {} THEN shown.driveTime = null /\ shown.driveHtml = ""
                      ELSE LET first == CHOOSE k \in rows : \A l \in rows : k <= l
                           IN  /\ shown.driveTime = <<p.logistics[first].drive_time_mins>>
                               /\ shown.driveHtml # ""
            /\ mapSelectedHub = "" => shown.driveTime = null /\ shown.driveHtml = ""

\* Guwahati picked: the first place has a row for it, the second only a row
\* with the hub's short name, the third rows for two hubs
C18_Witness ==
    /\ last.op = "onChange" /\ mapSelectedHub = "guwahati-airport"
    /\ popups[1].driveTime = <<30>> /\ popups[2].driveTime = null
    /\ popups[3].driveTime = <<240>>

\* C19: with the device location as origin every place shows the estimate
\* round(distanceKm * 1.4 / 35 * 60), the whole number of minutes nearest to
\* 2.4 minutes per kilometre (a half rounding up), whatever its logistics say.
C19_DeviceOriginEstimatesFromDistance ==
    mapSelectedHub = "my-location" =>
        /\ userCoords # null
        /\ \A i \in 1..Len(places) :
              LET metres == haversine(userCoords[1], userCoords[2],
                                      places[i].lat, places[i].lng)
                  shown == popups[i].driveTime
              IN  /\ shown # null
                  /\ 2 * 1250 * shown[1] - 1250 <= 2 * 3 * metres
                  /\ 2 * 3 * metres < 2 * 1250 * shown[1] + 1250

\* the device located near Guwahati: the first place, whose logistics give
\* 30 minutes from the airport, shows the estimate for its few kilometres
C19_Witness ==
    /\ last.op = "onPosition" /\ mapSelectedHub = "my-location"
    /\ userCoords = <<2615, 9174>>
    /\ popups[1].driveTime # null /\ popups[1].driveTime # <<30>>
    /\ popups[3].driveTime # null /\ popups[3].driveTime[1] > 240

\* C20: picking a hub in the dropdown selects that hub; a position makes
\* the device location the origin, with the reported coordinates, and
\* clears the status; an error leaves the selection and the coordinates as
\* they were and sets the status to "Location permission denied." for code
\* 1 and to "Unable to retrieve location." for any other code; the Reset
\* button and the empty option leave no origin.
C20_OriginTransitions ==
    [][/\ (last'.op = "onChange" /\ last'.arg \in HubSlugs) =>
            mapSelectedHub' = last'.arg
       /\ last'.op = "onPosition" =>
            /\ mapSelectedHub' = "my-location"
            /\ userCoords' = last'.arg
            /\ geoStatus' = ""
       /\ last'.op = "onPositionError" =>
            /\ UNCHANGED <<mapSelectedHub, userCoords>>
            /\ last'.arg = 1 => geoStatus' = "Location permission denied."
            /\ last'.arg # 1 => geoStatus' = "Unable to retrieve location."
       /\ (last'.op = "onReset" \/ (last'.op = "onChange" /\ last'.arg = "")) =>
            /\ mapSelectedHub' = ""
            /\ Origin(mapSelectedHub', userCoords') = null]_vars

\* a request refused for lack of permission while the device location of an
\* earlier request is the origin
C20_Witness ==
    /\ last.op = "onPositionError" /\ last.arg = 1
    /\ geoStatus = "Location permission denied."
    /\ mapSelectedHub = "my-location" /\ userCoords = <<2575, 9188>>


\* C21: the map and the store never disagree about which hub is selected:
\* the store's selected hub is a hub of the map exactly when the map has that
\* hub selected, so after selectHub(h) the map is in HubSelected(h).
C21_MapFollowsStoreHub ==
    \A i \in 1..Len(hubs) :
        selectedHub = hubs[i].fullName <=> mapSelectedHub = hubs[i].slug

\* C22: while a request of findNearMe has not called back, the status reads
\* "Locating...", also when several requests are in flight.
C22_LocatingWhilePending ==
    pending > 0 => geoStatus = "Locating..."

\* C23: findNearMe issues a request whatever is in flight; every completion
\* is applied when it arrives; a position always becomes the stored
\* coordinates and makes the device location the origin, whatever was
\* selected or reset since the request.
C23_LastWriterWins ==
    [][/\ (last'.op = "findNearMe" /\ last'.arg) => pending' = pending + 1
       /\ last'.op \in {"onPosition", "onPositionError"} => pending' = pending - 1
       /\ last'.op = "onPosition" =>
            /\ userCoords' = last'.arg
            /\ Origin(mapSelectedHub', userCoords') = last'.arg]_vars

\* a position arrives while another request is still in flight
C23_Witness ==
    /\ last.op = "onPosition" /\ pending = 1
    /\ userCoords = <<2575, 9188>> /\ mapSelectedHub = "my-location"
    /\ layers # <<>>

\* C24: placesInRadius is the number of places at most 50 km from the
\* origin, a place at exactly 50 km included; it is 0 without an origin and
\* never more than the number of places.
C24_InRadiusCount ==
    LET origin == Origin(mapSelectedHub, userCoords)
        near == {i \in 1..Len(places) :
                    /\ origin # null
                    /\ haversine(origin[1], origin[2], places[i].lat, places[i].lng)
                          <= 50 * 1000}
    IN  /\ placesInRadius = Cardinality(near)
        /\ origin = null => placesInRadius = 0
        /\ placesInRadius <= Len(places)
        /\ isInside(<<50 * 1000>>) /\ ~isInside(<<50 * 1000 + 1>>)
        /\ \A i \in 1..Len(places) : popups[i].inside <=> i \in near

\* Guwahati airport selected: one place lies within the radius
C24_Witness ==
    /\ mapSelectedHub = "guwahati-airport" /\ placesInRadius = 1
    /\ popups[1].inside /\ ~popups[2].inside /\ popups[2].dist # null

\* C25: the map never holds more than one radius circle and one origin
\* marker; with an origin (a known hub, or the device location with
\* coordinates) it holds one of each, at the origin; without, none.
C25_OneCircleOneMarker ==
    LET origin == Origin(mapSelectedHub, userCoords)
        circles == {i \in 1..Len(layers) : layers[i].kind = "circle"}
        markers == {i \in 1..Len(layers) : layers[i].kind = "marker"}
    IN  /\ Cardinality(circles) <= 1
        /\ Cardinality(markers) <= 1
        /\ origin # null =>
              /\ Cardinality(circles) = 1 /\ Cardinality(markers) = 1
              /\ \A i \in 1..Len(layers) : layers[i].at = origin
        /\ origin = null => layers = <<>>
        /\ mapSelectedHub = "" => layers = <<>>

\* a hub picked after the device location had been the origin
C25_Witness ==
    /\ last.op = "onChange" /\ mapSelectedHub = "shillong-airport"
    /\ userCoords # null
    /\ Len(layers) = 2 /\ layers[1].at = <<2570, 9198>>

\* C26: whenever "my-location" is selected, coordinates are stored.
C26_MyLocationHasCoordinates ==
    mapSelectedHub = "my-location" => userCoords # null

\* my-location picked again in the dropdown
C26_Witness ==
    /\ last.op = "onChange" /\ last.arg = "my-location"
    /\ mapSelectedHub = "my-location" /\ userCoords # null

\* C27: when every request of findNearMe has called back, the status does
\* not read "Locating...".
C27_LocatingOnlyWhilePending ==
    pending = 0 => geoStatus # "Locating..."

\* the last of the requests timed out
C27_Witness ==
    /\ pending = 0 /\ last.op = "onPositionError" /\ last.arg = 3
    /\ geoStatus = "Unable to retrieve location."

\* C28: addToCart, and removeFromCart of an id the cart does not hold, run
\* on a page that has not yet run loadFromStorage, leave every entry of the
\* cart key in the cart key.
C28_UnhydratedStepsKeepStoredEntries ==
    [][(/\ session = "fresh"
        /\ storedCart.kind = "json-array"
        /\ \/ last'.op = "addToCart"
           \/ last'.op = "removeFromCart" /\ ~last'.hit) =>
          /\ storedCart'.kind = "json-array"
          /\ \A i \in 1..Len(storedCart.items) :
                \E j \in 1..Len(storedCart'.items) :
                    storedCart'.items[j] = storedCart.items[i]]_vars

\* the ids of a list of entries
Ids(items) == {items[i].id : i \in 1..Len(items)}

\* a list of entries without those of one id
Without(items, id) == SelectSeq(items, LAMBDA e : e.id # id)

\* C29: a click on the button of a place removes the place's entry if the
\* cart holds one and adds the place otherwise; the other entries stay, in
\* their order; two clicks on one button give back the ids the cart had.
C29_ClickFlipsMembership ==
    [][/\ last'.op = "click" =>
            /\ InCart(cartItems'.items, last'.id) <=> ~InCart(Items, last'.id)
            /\ Without(cartItems'.items, last'.id) = Without(Items, last'.id)
       /\ \A place \in Places :
            LET once == handleClick(Store, place, TRUE, TRUE)
                twice == handleClick(once, place, TRUE, TRUE)
            IN  Ids(twice.cartItems.items) = Ids(Items)]_vars

\* a click that took one of three entries out of the cart
C29_Witness ==
    /\ last.op = "click" /\ last.hit
    /\ Len(Items) = 2 /\ ~InCart(Items, last.id)

\* C30: the dropdown and the Reset button leave the status as it is; the
\* status changes only in a step of findNearMe or of one of its callbacks.
C30_StatusOnlyFromGeolocation ==
    [][/\ last'.op \in {"onChange", "onReset"} => geoStatus' = geoStatus
       /\ geoStatus' # geoStatus =>
            last'.op \in {"findNearMe", "onPosition", "onPositionError"}]_vars

\* Reset pressed while a refusal is showing
C30_Witness ==
    /\ last.op = "onReset" /\ geoStatus = "Location permission denied."
    /\ mapSelectedHub = ""

====
